---- MODULE Spec2Model ----
(***************************************************************************)
(* The chunk-distribution and redundancy-placement engine of the storage   *)
(* subnet validator (storage/validator/utils.py): chunk sizing, group      *)
(* partitioning, seeded selection and the chunk planners.                  *)
(*                                                                         *)
(* Two specifications:                                                     *)
(*   SpecFn : the pure functions, applied to inputs drawn from bounded     *)
(*            sets (one action per function);                              *)
(*   Spec   : the planners, run as generators (set-up, group extension,    *)
(*            one step per yielded item), twice in a row from the same     *)
(*            arguments;                                                   *)
(*   SpecConc : two calls that seed and draw from the process-wide         *)
(*            generator, their statements interleaved;                     *)
(*   SpecTtl : calls of a function wrapped by ttl_cache, as time passes;   *)
(*   SpecChain : the round-robin validator selection, block after block;   *)
(*   SpecUids : the selections of uids from a metagraph;                   *)
(*   SpecComb : the combinatorial mode, its planner and its assignments.   *)
(***************************************************************************)
EXTENDS Integers, Sequences, FiniteSets, TLC

VARIABLES
    rng,        \* state of the process-wide generator `pyrandom`
    args,       \* arguments of the running planner call
    pc,         \* position of the planner: start, extend, yield, done, raised
    loc,        \* locals of the planner (available_uids, chunk_size, uid_groups, ...)
    yielded,    \* items the planner has yielded (or appended to its result) so far
    err,        \* exception raised by the planner, "none" if none
    prev,       \* outcome of the previous run of the same call
    call,       \* SpecFn: the function applied last, with its arguments
    ret,        \* SpecFn: what it returned
    threads,    \* SpecConc: the concurrent calls, each with its arguments and position
    cached,     \* SpecTtl: the clock and the closure of a function wrapped by ttl_cache
    chain       \* SpecChain: the chain's height and the validator selected at it

vars == <<rng, args, pc, loc, yielded, err, prev, call, ret, threads, cached, chain>>

----------------------------------------------------------------------------
(* Bounds of the model *)

MaxUids == 3        \* uids 0 .. MaxUids-1 in the metagraph
MaxR == 3           \* redundancy factors 1 .. MaxR
MaxK == 3           \* requested pool sizes 0 .. MaxK
MaxData == 10       \* small data sizes 0 .. MaxData (bytes)
MaxPlanData == 7    \* data sizes 0 .. MaxPlanData planned with an explicit chunk size
MaxChunk == 3       \* explicit chunk sizes 1 .. MaxChunk
MaxLimit == 4       \* min_chunk_size, max_chunk_size in 0 .. MaxLimit (SpecFn)
MaxSeed == 1        \* block seeds 0 .. MaxSeed
MaxMinMult == 3     \* large data sizes m * MIN_CHUNK_SIZE (+1), m in 1 .. MaxMinMult
MaxMaxMult == 2     \* large data sizes m * MAX_CHUNK_SIZE (+1), m in 1 .. MaxMaxMult
RngMod == 8         \* number of states of the modelled generator
MaxTime == 26       \* SpecTtl: the clock runs from 0 to MaxTime
MaxTtl == 2         \* SpecTtl: ttl in 1 .. MaxTtl, besides the ttl of current_block_hash
MaxEpochs == 4      \* SpecChain: the chain runs through MaxEpochs epochs
MaxPool == 4        \* SpecFn: lists of distinct uids taken from 0 .. MaxPool-1
MaxFnSeed == 8      \* SpecFn: block seeds 0 .. MaxFnSeed
MaxHashes == 4      \* SpecFn: lists of 0 .. MaxHashes chunk hashes
MaxBytes == 5       \* SpecFn: byte strings of 0 .. MaxBytes bytes
MaxByte == 1        \* SpecFn: byte values 0 .. MaxByte
MaxStake == 1       \* SpecFn: stakes and vpermit_tao_limit in 0 .. MaxStake
MaxNumChunks == 4   \* SpecFn: requested numbers of chunks 1 .. MaxNumChunks

(* Program constants *)

MIN_CHUNK_SIZE == 33554432
MAX_CHUNK_SIZE == 268435456

\* @ttl_cache(ttl=12) on current_block_hash
BLOCK_HASH_TTL == 12

\* get_current_block() // 100 in get_current_validtor_uid_round_robin
EPOCH_BLOCKS == 100

----------------------------------------------------------------------------
(* Python numbers.  An int is n/1; the float of a true division a / b is   *)
(* the rational a/b (exact below 2^53, which covers every size used here). *)

Num(n) == [n |-> n, d |-> 1]

\* int(x) for x >= 0
Floor(x) == x.n \div x.d

\* x < y, without forming products of two sizes
NumLT(x, y) ==
    IF x.d = y.d THEN x.n < y.n
    ELSE IF y.d = 1 THEN (x.n \div x.d) < y.n
    ELSE IF x.d = 1 THEN \/ x.n < (y.n \div y.d)
                         \/ (x.n = (y.n \div y.d) /\ (y.n % y.d) # 0)
    ELSE x.n * y.d < y.n * x.d

\* Python's min(a, b) and max(a, b): the first argument unless the second beats it
PyMin(a, b) == IF NumLT(b, a) THEN b ELSE a
PyMax(a, b) == IF NumLT(a, b) THEN b ELSE a

Min(a, b) == IF a < b THEN a ELSE b
Max(a, b) == IF a < b THEN b ELSE a

\* math.ceil(a / b) for a >= 0, b >= 1
CeilDiv(a, b) == (a + b - 1) \div b

Range(s) == {s[i] : i \in 1..Len(s)}
Distinct(s) == \A i, j \in 1..Len(s) : i # j => s[i] # s[j]

----------------------------------------------------------------------------
(* Chunk sizer *)

\* a sizer that forgets the upper clamp
optimal_chunk_size_noclamp(data_size, num_available_uids, R, min_chunk_size, max_chunk_size) ==
    LET max_chunks == num_available_uids \div R
        ideal_chunk_size == IF max_chunks > 0
                            THEN [n |-> data_size, d |-> max_chunks]
                            ELSE Num(max_chunk_size)
        chunk_size == PyMax(Num(min_chunk_size), ideal_chunk_size)
    IN  IF NumLT(Num(data_size), chunk_size) THEN data_size ELSE Floor(chunk_size)

\* a sizer that divides by the uids instead of by the groups
optimal_chunk_size_nogroups(data_size, num_available_uids, R, min_chunk_size, max_chunk_size) ==
    LET max_chunks == num_available_uids
        ideal_chunk_size == IF max_chunks > 0
                            THEN [n |-> data_size, d |-> max_chunks]
                            ELSE Num(max_chunk_size)
        chunk_size == PyMax(Num(min_chunk_size), PyMin(ideal_chunk_size, Num(max_chunk_size)))
    IN  IF NumLT(Num(data_size), chunk_size) THEN data_size ELSE Floor(chunk_size)

optimal_chunk_size(data_size, num_available_uids, R, min_chunk_size, max_chunk_size) ==
    LET max_chunks == num_available_uids \div R
        ideal_chunk_size == IF max_chunks > 0
                            THEN [n |-> data_size, d |-> max_chunks]
                            ELSE Num(max_chunk_size)
        chunk_size == PyMax(Num(min_chunk_size), PyMin(ideal_chunk_size, Num(max_chunk_size)))
    IN  IF NumLT(Num(data_size), chunk_size) THEN data_size ELSE Floor(chunk_size)

\* the call with the default bounds
default_chunk_size(data_size, num_available_uids, R) ==
    optimal_chunk_size(data_size, num_available_uids, R, MIN_CHUNK_SIZE, MAX_CHUNK_SIZE)

----------------------------------------------------------------------------
(* Group partitioner *)

\* a partition whose windows overlap by one uid
partition_uids_overlap(available_uids, R) ==
    [g \in 1..CeilDiv(Len(available_uids), R) |->
        SubSeq(available_uids,
               Max(1, (g - 1) * R),
               Min(g * R, Len(available_uids)))]

partition_uids(available_uids, R) ==
    [g \in 1..CeilDiv(Len(available_uids), R) |->
        SubSeq(available_uids, (g - 1) * R + 1, Min(g * R, Len(available_uids)))]

\* an adjustment that keeps the whole list
adjust_uids_keep(available_uids, R) == available_uids

adjust_uids_to_multiple(available_uids, R) ==
    LET max_complete_groups == Len(available_uids) \div R
        adjusted_length == max_complete_groups * R
    IN  SubSeq(available_uids, 1, adjusted_length)

----------------------------------------------------------------------------
(* Chunk boundaries *)

\* boundaries that drop the short final chunk
calculate_chunk_indices_floor(data_size, chunk_size) ==
    [i \in 1..(data_size \div chunk_size) |->
        <<(i - 1) * chunk_size, Min((i - 1) * chunk_size + chunk_size, data_size)>>]

\* chunk_size >= 1 (a zero chunk_size raises ZeroDivisionError: see the planners)
calculate_chunk_indices(data_size, chunk_size) ==
    LET num_chunks == CeilDiv(data_size, chunk_size)
        entry(i) ==
            LET start_idx == i * chunk_size
                end_idx == Min(start_idx + chunk_size, data_size)
            IN  IF i = num_chunks - 1 /\ end_idx < data_size
                THEN <<start_idx, data_size>>
                ELSE <<start_idx, end_idx>>
    IN  [j \in 1..num_chunks |-> entry(j - 1)]

\* num_chunks >= 1
calculate_chunk_indices_from_num_chunks(data_size, num_chunks) ==
    LET chunk_size == Max(1, data_size \div num_chunks)
        entry(i) ==
            LET start_idx == i * chunk_size
                end_idx == Min(start_idx + chunk_size, data_size)
            IN  IF i = num_chunks - 1 /\ end_idx < data_size
                THEN <<start_idx, data_size>>
                ELSE <<start_idx, end_idx>>
    IN  [j \in 1..num_chunks |-> entry(j - 1)]

----------------------------------------------------------------------------
(* The process-wide generator `pyrandom` (random.seed, random.sample,      *)
(* random.shuffle), modelled as a small congruential generator: seeding    *)
(* fixes the state, every draw reads the state and advances it.            *)

seed(block_seed) == block_seed % RngMod

RngStep(g) == (5 * g + 3) % RngMod

\* _randbelow(n) in state g
RandBelow(g, n) == g % n

\* random.sample(population, k), k <= len(population): k draws, each taking
\* pool[j] and moving the last live element of the pool into its place
RECURSIVE sample(_, _, _)
sample(g, population, k) ==
    IF k = 0 THEN [out |-> <<>>, rng |-> g]
    ELSE LET n == Len(population)
             j == RandBelow(g, n) + 1
             pool == SubSeq([population EXCEPT ![j] = population[n]], 1, n - 1)
             rest == sample(RngStep(g), pool, k - 1)
         IN  [out |-> <<population[j]>> \o rest.out, rng |-> rest.rng]

\* random.shuffle(x): for i from len(x)-1 down to 1, swap x[i] with x[randbelow(i+1)]
RECURSIVE shuffle_from(_, _, _)
shuffle_from(g, x, i) ==
    IF i < 1 THEN [out |-> x, rng |-> g]
    ELSE LET j == RandBelow(g, i + 1)
             swapped == [x EXCEPT ![i + 1] = x[j + 1], ![j + 1] = x[i + 1]]
         IN  shuffle_from(RngStep(g), swapped, i - 1)

\* k draws that put every drawn element back
RECURSIVE choices(_, _, _)
choices(g, population, k) ==
    IF k = 0 THEN [out |-> <<>>, rng |-> g]
    ELSE LET rest == choices(RngStep(g), population, k - 1)
         IN  [out |-> <<population[RandBelow(g, Len(population)) + 1]>> \o rest.out,
              rng |-> rest.rng]

\* a shuffle that fills the list with draws from it
shuffle_with_replacement(g, x) == choices(g, x, Len(x))

shuffle(g, x) == shuffle_from(g, x, Len(x) - 1)

\* a selection that draws with replacement
get_pseudorandom_uids_choices(g, block_seed, uids, k) ==
    choices(seed(block_seed), uids, Min(k, Len(uids)))

\* a selection that forgets to seed the generator
get_pseudorandom_uids_unseeded(g, block_seed, uids, k) ==
    sample(g, uids, Min(k, Len(uids)))

\* g: the generator's state at the call; the result and the state it leaves
get_pseudorandom_uids(g, block_seed, uids, k) ==
    sample(seed(block_seed), uids, Min(k, Len(uids)))

----------------------------------------------------------------------------
(* Combinatorial groups *)

\* itertools.combinations(pool, r), in its order
RECURSIVE combinations(_, _)
combinations(pool, r) ==
    IF r = 0 THEN << <<>> >>
    ELSE IF Len(pool) < r THEN <<>>
    ELSE LET with == combinations(Tail(pool), r - 1)
             without == combinations(Tail(pool), r)
         IN  [i \in 1..Len(with) |-> <<Head(pool)>> \o with[i]] \o without

\* groups made of R consecutive uids only
generate_efficient_combinations_windows(available_uids, R) ==
    IF R > Len(available_uids)
    THEN [err |-> "ValueError", out |-> <<>>]
    ELSE [err |-> "none",
          out |-> [i \in 1..(Len(available_uids) - R + 1) |->
                      SubSeq(available_uids, i, i + R - 1)]]

generate_efficient_combinations(available_uids, R) ==
    IF R > Len(available_uids)
    THEN [err |-> "ValueError", out |-> <<>>]
    ELSE [err |-> "none", out |-> combinations(available_uids, R)]

----------------------------------------------------------------------------
(* Hash assignment: the combinations list is shuffled in place by the       *)
(* process-wide generator; the result gives the dict, the list as the call *)
(* leaves it and the generator's state after the call.                     *)

\* {hash_val: uid_combinations[i] for i, hash_val in enumerate(hashes)}, hashes distinct
assigned(hashes, uid_combinations) ==
    [h \in Range(hashes) |-> uid_combinations[CHOOSE i \in 1..Len(hashes) : hashes[i] = h]]

\* an assignment by block hash that forgets to seed the generator
assign_combinations_to_hashes_by_block_hash_unseeded(g, block_seed, hashes, uid_combinations) ==
    IF Len(hashes) > Len(uid_combinations)
    THEN [err |-> "ValueError", out |-> <<>>, combinations |-> uid_combinations, rng |-> g]
    ELSE LET shuffled == shuffle(g, uid_combinations)
         IN  [err |-> "none", out |-> assigned(hashes, shuffled.out),
              combinations |-> shuffled.out, rng |-> shuffled.rng]

assign_combinations_to_hashes_by_block_hash(g, block_seed, hashes, uid_combinations) ==
    IF Len(hashes) > Len(uid_combinations)
    THEN [err |-> "ValueError", out |-> <<>>, combinations |-> uid_combinations, rng |-> g]
    ELSE LET shuffled == shuffle(seed(block_seed), uid_combinations)
         IN  [err |-> "none", out |-> assigned(hashes, shuffled.out),
              combinations |-> shuffled.out, rng |-> shuffled.rng]

\* an assignment that shuffles before it checks the lengths
assign_combinations_to_hashes_shuffle_first(g, hashes, uid_combinations) ==
    LET shuffled == shuffle(g, uid_combinations)
    IN  IF Len(hashes) > Len(uid_combinations)
        THEN [err |-> "ValueError", out |-> <<>>,
              combinations |-> shuffled.out, rng |-> shuffled.rng]
        ELSE [err |-> "none", out |-> assigned(hashes, shuffled.out),
              combinations |-> shuffled.out, rng |-> shuffled.rng]

assign_combinations_to_hashes(g, hashes, uid_combinations) ==
    IF Len(hashes) > Len(uid_combinations)
    THEN [err |-> "ValueError", out |-> <<>>, combinations |-> uid_combinations, rng |-> g]
    ELSE LET shuffled == shuffle(g, uid_combinations)
         IN  [err |-> "none", out |-> assigned(hashes, shuffled.out),
              combinations |-> shuffled.out, rng |-> shuffled.rng]

----------------------------------------------------------------------------
(* Chunks of a byte string *)

\* data[i : j] for 0 <= i <= j
PySlice(data, i, j) == SubSeq(data, Min(i, Len(data)) + 1, Min(j, Len(data)))

\* a chunking that loses the short final chunk
chunk_data_generator_list_floor(data, chunk_size) ==
    [n \in 1..(Len(data) \div chunk_size) |->
        PySlice(data, (n - 1) * chunk_size, (n - 1) * chunk_size + chunk_size)]

\* list(chunk_data_generator(data, chunk_size)), chunk_size >= 1:
\* data[i : i + chunk_size] for i in range(0, len(data), chunk_size)
chunk_data_generator_list(data, chunk_size) ==
    [n \in 1..CeilDiv(Len(data), chunk_size) |->
        PySlice(data, (n - 1) * chunk_size, (n - 1) * chunk_size + chunk_size)]

----------------------------------------------------------------------------
(* Available uids.  A metagraph m has m.n uids 0 .. m.n-1 and, for uid u,  *)
(* m.axons[u+1] (is_serving), m.validator_permit[u+1] and the stake        *)
(* m.S[u+1].  exclude is <<>> for None and <<s>> for the list of the uids  *)
(* in s.                                                                   *)

\* an availability test that passes the axons that do not serve
check_uid_availability_any_axon(metagraph, uid, vpermit_tao_limit) ==
    IF metagraph.validator_permit[uid + 1] /\ metagraph.S[uid + 1] > vpermit_tao_limit
    THEN FALSE
    ELSE TRUE

check_uid_availability(metagraph, uid, vpermit_tao_limit) ==
    IF ~metagraph.axons[uid + 1] THEN FALSE
    ELSE IF metagraph.validator_permit[uid + 1] /\ metagraph.S[uid + 1] > vpermit_tao_limit
    THEN FALSE
    ELSE TRUE

\* for uid in range(n): appended when available and not excluded
get_available_uids(metagraph, vpermit_tao_limit, exclude) ==
    LET keep(uid) ==
            /\ check_uid_availability(metagraph, uid, vpermit_tao_limit)
            /\ (exclude = <<>> \/ uid \notin exclude[1])
    IN  SelectSeq([i \in 1..metagraph.n |-> i - 1], keep)

----------------------------------------------------------------------------
(* Inputs *)

Uids == 0..(MaxUids - 1)

\* the lists of k pairwise distinct uids taken from S
Arrangements(S, k) == {s \in [1..k -> S] : \A i, j \in 1..k : i # j => s[i] # s[j]}

\* every list of pairwise distinct uids
Pools == UNION {Arrangements(0..(MaxPool - 1), k) : k \in 0..MaxPool}

\* the lists of combinations a caller holds
CombinationLists == {combinations([i \in 1..n |-> i - 1], R) : n \in 0..MaxUids, R \in 1..MaxR}

\* lists of distinct chunk hashes
HashLists == {[i \in 1..m |-> i] : m \in 0..MaxHashes}

\* byte strings
ByteStrings == UNION {[1..n -> 0..MaxByte] : n \in 0..MaxBytes}

Metagraphs ==
    UNION {[n : {n}, axons : [1..n -> BOOLEAN], validator_permit : [1..n -> BOOLEAN],
            S : [1..n -> 0..MaxStake]] : n \in 0..MaxUids}

Excludes == {<<>>} \cup {<<s>> : s \in SUBSET Uids}

----------------------------------------------------------------------------
(* SpecFn: the pure functions applied to bounded inputs *)

NoCall == [fn |-> "none"]

NoCache == <<>>

NoChain == <<>>

PlannerOff ==
    /\ rng \in 0..(RngMod - 1)
    /\ args = <<>>
    /\ pc = "off"
    /\ loc = <<>>
    /\ yielded = <<>>
    /\ err = "none"
    /\ prev = <<>>

NoThreads == <<>>

InitFn ==
    /\ PlannerOff
    /\ cached = NoCache
    /\ chain = NoChain
    /\ call = NoCall
    /\ ret = <<>>
    /\ threads = NoThreads

planner_vars == <<rng, args, pc, loc, yielded, err, prev, threads, cached, chain>>

\* what a function that draws from the generator leaves alone
idle_vars == <<args, pc, loc, yielded, err, prev, threads, cached, chain>>

Call_optimal_chunk_size ==
    /\ call = NoCall
    /\ \E data_size \in 0..MaxData, num_available_uids \in 0..MaxUids, R \in 1..MaxR,
       min_chunk_size \in 0..MaxLimit, max_chunk_size \in 0..MaxLimit :
        /\ call' = [fn |-> "optimal_chunk_size", data_size |-> data_size,
                    num_available_uids |-> num_available_uids, R |-> R,
                    min_chunk_size |-> min_chunk_size, max_chunk_size |-> max_chunk_size]
        /\ ret' = optimal_chunk_size(data_size, num_available_uids, R,
                                     min_chunk_size, max_chunk_size)
        /\ UNCHANGED planner_vars

Call_calculate_chunk_indices ==
    /\ call = NoCall
    /\ \E data_size \in 0..MaxData, chunk_size \in 1..MaxChunk :
        /\ call' = [fn |-> "calculate_chunk_indices", data_size |-> data_size,
                    chunk_size |-> chunk_size]
        /\ ret' = calculate_chunk_indices(data_size, chunk_size)
        /\ UNCHANGED planner_vars

Call_calculate_chunk_indices_from_num_chunks ==
    /\ call = NoCall
    /\ \E data_size \in 0..MaxData, num_chunks \in 1..MaxNumChunks :
        /\ call' = [fn |-> "calculate_chunk_indices_from_num_chunks",
                    data_size |-> data_size, num_chunks |-> num_chunks]
        /\ ret' = calculate_chunk_indices_from_num_chunks(data_size, num_chunks)
        /\ UNCHANGED planner_vars

Call_partition_uids ==
    /\ call = NoCall
    /\ \E available_uids \in Pools, R \in 1..MaxR :
        /\ call' = [fn |-> "partition_uids", available_uids |-> available_uids, R |-> R]
        /\ ret' = partition_uids(available_uids, R)
        /\ UNCHANGED planner_vars

\* the partition as every planner builds it: the list adjusted, then partitioned
Call_adjust_then_partition ==
    /\ call = NoCall
    /\ \E available_uids \in Pools, R \in 1..MaxR :
        /\ call' = [fn |-> "adjust_then_partition", available_uids |-> available_uids,
                    R |-> R]
        /\ ret' = partition_uids(adjust_uids_to_multiple(available_uids, R), R)
        /\ UNCHANGED planner_vars

\* the first call of assign_combinations_to_hashes_by_block_hash has returned
IsFirstAssignByBlockHash ==
    /\ call.fn = "assign_combinations_to_hashes_by_block_hash"
    /\ ret.err = "none"

\* call.rng is the generator's state at the call
Call_get_pseudorandom_uids ==
    /\ call = NoCall
    /\ \E uids \in Pools, k \in 0..MaxK, block_seed \in 0..MaxFnSeed :
        LET sel == get_pseudorandom_uids(rng, block_seed, uids, k)
        IN  /\ call' = [fn |-> "get_pseudorandom_uids", block_seed |-> block_seed,
                        uids |-> uids, k |-> k, rng |-> rng]
            /\ ret' = sel.out
            /\ rng' = sel.rng
    /\ UNCHANGED idle_vars

Call_generate_efficient_combinations ==
    /\ call = NoCall
    /\ \E available_uids \in Pools, R \in 1..MaxR :
        /\ call' = [fn |-> "generate_efficient_combinations",
                    available_uids |-> available_uids, R |-> R]
        /\ ret' = generate_efficient_combinations(available_uids, R)
    /\ UNCHANGED planner_vars

Call_assign_combinations_to_hashes_by_block_hash ==
    /\ call = NoCall
    /\ \E hashes \in HashLists, uid_combinations \in CombinationLists,
          block_seed \in 0..MaxFnSeed :
        LET r == assign_combinations_to_hashes_by_block_hash(rng, block_seed, hashes,
                                                             uid_combinations)
        IN  /\ call' = [fn |-> "assign_combinations_to_hashes_by_block_hash",
                        block_seed |-> block_seed, hashes |-> hashes,
                        combinations |-> uid_combinations, rng |-> rng]
            /\ ret' = [err |-> r.err, out |-> r.out, combinations |-> r.combinations]
            /\ rng' = r.rng
    /\ UNCHANGED idle_vars

Call_assign_combinations_to_hashes ==
    /\ call = NoCall
    /\ \E hashes \in HashLists, uid_combinations \in CombinationLists :
        LET r == assign_combinations_to_hashes(rng, hashes, uid_combinations)
        IN  /\ call' = [fn |-> "assign_combinations_to_hashes", hashes |-> hashes,
                        combinations |-> uid_combinations, rng |-> rng]
            /\ ret' = [err |-> r.err, out |-> r.out, combinations |-> r.combinations]
            /\ rng' = r.rng
    /\ UNCHANGED idle_vars

\* the caller of assign_combinations_to_hashes_by_block_hash calls it again with the
\* same hashes, in the same block: either with the list it passed the first time,
\* which that call shuffled in place (same_list), or with a new list equal to the
\* first one as it was
Call_assign_combinations_to_hashes_by_block_hash_again ==
    /\ IsFirstAssignByBlockHash
    /\ \E same_list \in BOOLEAN :
        LET passed == IF same_list THEN ret.combinations ELSE call.combinations
            r == assign_combinations_to_hashes_by_block_hash(rng, call.block_seed,
                                                             call.hashes, passed)
        IN  /\ call' = [fn |-> "assign_combinations_to_hashes_by_block_hash_again",
                        block_seed |-> call.block_seed, hashes |-> call.hashes,
                        combinations |-> passed, rng |-> rng,
                        same_list |-> same_list, first |-> ret]
            /\ ret' = [err |-> r.err, out |-> r.out, combinations |-> r.combinations]
            /\ rng' = r.rng
    /\ UNCHANGED idle_vars

Call_chunk_data_generator ==
    /\ call = NoCall
    /\ \E data \in ByteStrings, chunk_size \in 1..MaxChunk :
        /\ call' = [fn |-> "chunk_data_generator", data |-> data, chunk_size |-> chunk_size]
        /\ ret' = chunk_data_generator_list(data, chunk_size)
    /\ UNCHANGED planner_vars

Call_get_available_uids ==
    /\ call = NoCall
    /\ \E metagraph \in Metagraphs, vpermit_tao_limit \in 0..MaxStake, exclude \in Excludes :
        /\ call' = [fn |-> "get_available_uids", metagraph |-> metagraph,
                    vpermit_tao_limit |-> vpermit_tao_limit, exclude |-> exclude]
        /\ ret' = get_available_uids(metagraph, vpermit_tao_limit, exclude)
    /\ UNCHANGED planner_vars

\* the caller takes the result; the next call may start
Return ==
    /\ call # NoCall
    /\ call' = NoCall
    /\ ret' = <<>>
    /\ UNCHANGED planner_vars

NextFn ==
    \/ Return
    \/ Call_optimal_chunk_size
    \/ Call_calculate_chunk_indices
    \/ Call_calculate_chunk_indices_from_num_chunks
    \/ Call_partition_uids
    \/ Call_adjust_then_partition
    \/ Call_get_pseudorandom_uids
    \/ Call_generate_efficient_combinations
    \/ Call_assign_combinations_to_hashes_by_block_hash
    \/ Call_assign_combinations_to_hashes
    \/ Call_assign_combinations_to_hashes_by_block_hash_again
    \/ Call_chunk_data_generator
    \/ Call_get_available_uids

SpecFn == InitFn /\ [][NextFn]_vars

----------------------------------------------------------------------------
(* Spec: the planners *)

Planners == {"reuse_uids", "reuse_uids_yield", "exclusive_file",
             "pre_process_file", "yield_file", "combinatorial"}

\* the exclusive-mode planners
Exclusive == Planners \ {"combinatorial"}

\* the candidate uids the metagraph offers, in ascending order
\* (get_available_uids, get_all_miners)
Muids == {[i \in 1..n |-> i - 1] : n \in 0..MaxUids}

\* sizes that make the default bounds matter
LargeSizes ==
    {m * MIN_CHUNK_SIZE + r : m \in 1..MaxMinMult, r \in 0..1}
        \cup {m * MAX_CHUNK_SIZE + r : m \in 1..MaxMaxMult, r \in 0..1}

\* below MIN_CHUNK_SIZE the default chunk is the data itself: 0 and 1 stand for these
DefaultSizes == {0, 1} \cup LargeSizes

\* chunk_size = 0 is the absent (None) argument; only
\* compute_chunk_distribution_mut_exclusive_numpy_reuse_uids takes one
PlannerArgs ==
    {a \in [planner : Planners, data_size : (0..MaxPlanData) \cup DefaultSizes,
            R : 1..MaxR, k : 0..MaxK, chunk_size : 0..MaxChunk,
            muids : Muids, block_seed : 0..MaxSeed] :
        IF a.chunk_size = 0
        THEN a.data_size \in DefaultSizes
        ELSE a.planner = "reuse_uids" /\ a.data_size \in 0..MaxPlanData}

NoPrev == [done |-> FALSE]

Init ==
    /\ rng \in 0..(RngMod - 1)
    /\ args \in PlannerArgs
    /\ pc = "start"
    /\ loc = <<>>
    /\ yielded = <<>>
    /\ err = "none"
    /\ prev = NoPrev
    /\ call = NoCall
    /\ ret = <<>>
    /\ threads = NoThreads
    /\ cached = NoCache
    /\ chain = NoChain

fn_vars == <<call, ret, threads, cached, chain>>

\* the locals once the pool is drawn; an entry not yet computed is left empty
Locals(pool, chunk_size, available_uids, groups, total) ==
    [pool |-> pool, chunk_size |-> chunk_size, available_uids |-> available_uids,
     initial_uid_groups |-> groups, uid_groups |-> groups, total |-> total, i |-> 0]

\* the planner stops with exception e; what it had computed stays in l
Raise(e, l) ==
    /\ pc' = "raised"
    /\ err' = e
    /\ loc' = l
    /\ UNCHANGED yielded

Goto(p, l) ==
    /\ pc' = p
    /\ loc' = l
    /\ UNCHANGED <<yielded, err>>

\* get_available_query_miners and get_query_miners: the candidates, then the
\* seeded selection (the capacity filter's result, muids_nonfull, is not used)
get_available_query_miners(g, a) == get_pseudorandom_uids(g, a.block_seed, a.muids, a.k)

get_query_miners(g, a) == get_pseudorandom_uids(g, a.block_seed, a.muids, a.k)

compute_chunk_distribution_mut_exclusive_numpy_reuse_uids ==
    /\ pc = "start" /\ args.planner = "reuse_uids"
    /\ LET sel == get_available_query_miners(rng, args)
           chunk_size == IF args.chunk_size # 0 THEN args.chunk_size
                         ELSE default_chunk_size(args.data_size, Len(sel.out), args.R)
           available_uids == adjust_uids_to_multiple(sel.out, args.R)
           groups == partition_uids(available_uids, args.R)
       IN  /\ rng' = sel.rng
           /\ IF chunk_size = 0
              \* calculate_chunk_indices divides by chunk_size
              THEN Raise("ZeroDivisionError",
                         Locals(sel.out, chunk_size, available_uids, <<>>, 0))
              ELSE IF args.R > Len(available_uids)
              THEN Raise("ValueError",
                         Locals(sel.out, chunk_size, available_uids, <<>>, 0))
              ELSE Goto("extend", Locals(sel.out, chunk_size, available_uids, groups,
                                         args.data_size \div chunk_size))
    /\ UNCHANGED <<args, prev, fn_vars>>

compute_chunk_distribution_mut_exclusive_numpy_reuse_uids_yield ==
    /\ pc = "start" /\ args.planner = "reuse_uids_yield"
    /\ LET sel == get_available_query_miners(rng, args)
           chunk_size == default_chunk_size(args.data_size, Len(sel.out), args.R)
           available_uids == adjust_uids_to_multiple(sel.out, args.R)
           groups == partition_uids(available_uids, args.R)
       IN  /\ rng' = sel.rng
           /\ IF args.R > Len(available_uids)
              THEN Raise("ValueError",
                         Locals(sel.out, chunk_size, available_uids, <<>>, 0))
              ELSE IF chunk_size = 0
              \* total_chunks_needed = data_size // chunk_size
              THEN Raise("ZeroDivisionError",
                         Locals(sel.out, chunk_size, available_uids, groups, 0))
              ELSE Goto("extend", Locals(sel.out, chunk_size, available_uids, groups,
                                         args.data_size \div chunk_size))
    /\ UNCHANGED <<args, prev, fn_vars>>

\* a loop that starts over from the initial groups instead of reaching the total
ExtendGroups_restart ==
    /\ pc = "extend"
    /\ Len(loc.uid_groups) < loc.total
    /\ Len(loc.initial_uid_groups) > 0
    /\ LET n == Len(loc.initial_uid_groups)
           appended == Len(loc.uid_groups) - n
       IN  loc' = [loc EXCEPT !.uid_groups =
                       IF Len(@) + 1 >= loc.total
                       THEN loc.initial_uid_groups
                       ELSE Append(@, loc.initial_uid_groups[(appended % n) + 1])]
    /\ UNCHANGED <<rng, args, pc, yielded, err, prev, fn_vars>>

\* one pass of `for group in cycle(initial_uid_groups)` that appends a group
ExtendGroups ==
    /\ pc = "extend"
    /\ Len(loc.uid_groups) < loc.total
    /\ Len(loc.initial_uid_groups) > 0
    /\ LET n == Len(loc.initial_uid_groups)
           appended == Len(loc.uid_groups) - n
       IN  loc' = [loc EXCEPT !.uid_groups =
                       Append(@, loc.initial_uid_groups[(appended % n) + 1])]
    /\ UNCHANGED <<rng, args, pc, yielded, err, prev, fn_vars>>

\* the while loop ends: enough groups
EndExtend ==
    /\ pc = "extend"
    /\ Len(loc.uid_groups) >= loc.total
    /\ pc' = "yield"
    /\ UNCHANGED <<rng, args, loc, yielded, err, prev, fn_vars>>

\* the planner yields item x and waits for the next request
Yield(x) ==
    /\ yielded' = Append(yielded, x)
    /\ loc' = [loc EXCEPT !.i = @ + 1]
    /\ UNCHANGED <<pc, err>>

Finish ==
    /\ pc' = "done"
    /\ UNCHANGED <<loc, yielded, err>>

\* for i, ((start, end), uid_group) in enumerate(zip(chunk_indices, uid_groups))
next_reuse_uids ==
    /\ pc = "yield" /\ args.planner = "reuse_uids"
    /\ LET chunk_indices == calculate_chunk_indices(args.data_size, loc.chunk_size)
           i == loc.i
       IN  IF i < Len(chunk_indices) /\ i < Len(loc.uid_groups)
           THEN Yield([chunk_size |-> loc.chunk_size,
                       start_idx |-> chunk_indices[i + 1][1],
                       end_idx |-> chunk_indices[i + 1][2],
                       uids |-> loc.uid_groups[i + 1],
                       chunk_index |-> i])
           ELSE Finish
    /\ UNCHANGED <<rng, args, prev, fn_vars>>

\* chunk_data_generator(data, chunk_size): the i-th chunk is data[i*cs : i*cs + cs],
\* given here by the range of bytes it holds; no chunk is left when the range is empty
chunk_data_generator(data_size, chunk_size, i) ==
    <<i * chunk_size, Min(i * chunk_size + chunk_size, data_size)>>

HasChunk(data_size, chunk_size, i) == i * chunk_size < data_size

\* for chunk, uid_group in zip(data_chunks, uid_groups): the item is built with
\* uid_group.tolist(), and uid_group is a tuple
next_reuse_uids_yield ==
    /\ pc = "yield" /\ args.planner = "reuse_uids_yield"
    /\ IF HasChunk(args.data_size, loc.chunk_size, loc.i) /\ loc.i < Len(loc.uid_groups)
       THEN Raise("AttributeError", loc)
       ELSE Finish
    /\ UNCHANGED <<rng, args, prev, fn_vars>>

compute_chunk_distribution_mut_exclusive_file ==
    /\ pc = "start" /\ args.planner = "exclusive_file"
    /\ LET sel == get_query_miners(rng, args)
           chunk_size == default_chunk_size(args.data_size, Len(sel.out), args.R)
           available_uids == adjust_uids_to_multiple(sel.out, args.R)
           groups == partition_uids(available_uids, args.R)
       IN  /\ rng' = sel.rng
           /\ IF args.R > Len(available_uids)
              THEN Raise("ValueError",
                         Locals(sel.out, chunk_size, available_uids, <<>>, 0))
              ELSE Goto("yield", Locals(sel.out, chunk_size, available_uids, groups, 0))
    /\ UNCHANGED <<args, prev, fn_vars>>

\* file.read(chunk_size) at position pos of a file of data_size bytes
file_read(data_size, pos, chunk_size) ==
    <<Min(pos, data_size), Min(pos + chunk_size, data_size)>>

\* for uid_group in uid_groups: chunk = file.read(chunk_size); if not chunk: break
next_exclusive_file ==
    /\ pc = "yield" /\ args.planner = "exclusive_file"
    /\ LET pos == Min(loc.i * loc.chunk_size, args.data_size)
           chunk == file_read(args.data_size, pos, loc.chunk_size)
       IN  IF loc.i < Len(loc.uid_groups) /\ chunk[1] < chunk[2]
           THEN Yield([chunk |-> chunk, uids |-> loc.uid_groups[loc.i + 1]])
           ELSE Finish
    /\ UNCHANGED <<rng, args, prev, fn_vars>>

pre_process_chunk_distribution_file ==
    /\ pc = "start" /\ args.planner = "pre_process_file"
    /\ LET sel == get_query_miners(rng, args)
           chunk_size == default_chunk_size(args.data_size, Len(sel.out), args.R)
           available_uids == adjust_uids_to_multiple(sel.out, args.R)
           groups == partition_uids(available_uids, args.R)
       IN  /\ rng' = sel.rng
           /\ IF args.R > Len(available_uids)
              THEN Raise("ValueError",
                         Locals(sel.out, chunk_size, available_uids, <<>>, 0))
              ELSE IF chunk_size = 0
              \* num_chunks = data_size // chunk_size + ...
              THEN Raise("ZeroDivisionError",
                         Locals(sel.out, chunk_size, available_uids, groups, 0))
              ELSE Goto("yield",
                        Locals(sel.out, chunk_size, available_uids, groups,
                               (args.data_size \div chunk_size)
                                 + (IF args.data_size % chunk_size # 0 THEN 1 ELSE 0)))
    /\ UNCHANGED <<args, prev, fn_vars>>

\* for i in range(num_chunks): chunk_meta_data.append(...); then the list is returned
next_pre_process_file ==
    /\ pc = "yield" /\ args.planner = "pre_process_file"
    /\ IF loc.i < loc.total
       THEN Yield([start_pos |-> loc.i * loc.chunk_size,
                   chunk_size |-> loc.chunk_size,
                   uids |-> loc.uid_groups[(loc.i % Len(loc.uid_groups)) + 1]])
       ELSE Finish
    /\ UNCHANGED <<rng, args, prev, fn_vars>>

yield_chunk_distribution_file ==
    /\ pc = "start" /\ args.planner = "yield_file"
    /\ LET sel == get_query_miners(rng, args)
           chunk_size == default_chunk_size(args.data_size, Len(sel.out), args.R)
           available_uids == sel.out
           groups == partition_uids(available_uids, args.R)
       IN  /\ rng' = sel.rng
           /\ IF args.R > Len(available_uids)
              THEN Raise("ValueError",
                         Locals(sel.out, chunk_size, available_uids, <<>>, 0))
              ELSE IF Len(available_uids) % args.R # 0
              THEN Raise("ValueError",
                         Locals(sel.out, chunk_size, available_uids, <<>>, 0))
              ELSE IF chunk_size = 0
              THEN Raise("ZeroDivisionError",
                         Locals(sel.out, chunk_size, available_uids, groups, 0))
              ELSE Goto("yield",
                        Locals(sel.out, chunk_size, available_uids, groups,
                               (args.data_size \div chunk_size)
                                 + (IF args.data_size % chunk_size # 0 THEN 1 ELSE 0)))
    /\ UNCHANGED <<args, prev, fn_vars>>

\* load_chunk(chunk_meta): reads the keys file_path, start_pos, chunk_size and uids
load_chunk(chunk_meta, data_size) ==
    IF {"file_path", "start_pos", "chunk_size", "uids"} \subseteq DOMAIN chunk_meta
    THEN [err |-> "none",
          out |-> [chunk_data |-> file_read(data_size, chunk_meta.start_pos,
                                            chunk_meta.chunk_size),
                   uids |-> chunk_meta.uids]]
    ELSE [err |-> "KeyError", out |-> <<>>]

\* for i in range(num_chunks): yield uid_groups[i % len(uid_groups)], load_chunk(chunk_meta)
next_yield_file ==
    /\ pc = "yield" /\ args.planner = "yield_file"
    /\ IF loc.i < loc.total
       THEN LET chunk_meta == [file_path |-> "file_path",
                               start_pos |-> loc.i * loc.chunk_size,
                               chunk_size |-> loc.chunk_size]
                loaded == load_chunk(chunk_meta, args.data_size)
            IN  IF loaded.err # "none"
                THEN Raise(loaded.err, loc)
                ELSE Yield(<<loc.uid_groups[(loc.i % Len(loc.uid_groups)) + 1],
                             loaded.out>>)
       ELSE Finish
    /\ UNCHANGED <<rng, args, prev, fn_vars>>

\* get_random_uids(self, k) as compute_chunk_distribution calls it (no exclude, no
\* seed): min(k, len(candidates)) of the candidates, drawn by Crypto.Random's
\* random.sample, which no seed determines: any arrangement may come out
get_random_uids(a) == Arrangements(Range(a.muids), Min(a.k, Len(a.muids)))

\* pyrandom.seed(block_seed); pyrandom.shuffle(x)
seeded_shuffle(g, block_seed, x) == shuffle(seed(block_seed), x)

\* compute_chunk_distribution with the default min_chunk_size and max_chunk_size
compute_chunk_distribution ==
    /\ pc = "start" /\ args.planner = "combinatorial"
    /\ \E available_uids \in get_random_uids(args) :
        LET data_size == args.data_size
            optimal == default_chunk_size(data_size, Len(available_uids), args.R)
            chunk_size == IF optimal > data_size THEN data_size ELSE optimal
            uid_combinations == generate_efficient_combinations(available_uids, args.R)
            shuffled == seeded_shuffle(rng, args.block_seed, uid_combinations.out)
        IN  IF uid_combinations.err # "none"
            THEN /\ rng' = rng
                 /\ Raise(uid_combinations.err,
                          Locals(available_uids, chunk_size, available_uids, <<>>, 0))
            ELSE /\ rng' = shuffled.rng
                 /\ IF chunk_size = 0
                    \* range(0, len(data), 0) in chunk_data_generator, at the first chunk
                    THEN Raise("ValueError",
                               Locals(available_uids, chunk_size, available_uids,
                                      shuffled.out, 0))
                    ELSE Goto("yield", Locals(available_uids, chunk_size, available_uids,
                                              shuffled.out, 0))
    /\ UNCHANGED <<args, prev, fn_vars>>

\* for i, chunk in enumerate(data_chunks): yield {...: uid_combinations[i]}
next_combinatorial ==
    /\ pc = "yield" /\ args.planner = "combinatorial"
    /\ IF HasChunk(args.data_size, loc.chunk_size, loc.i)
       THEN IF loc.i < Len(loc.uid_groups)
            THEN Yield([chunk |-> chunk_data_generator(args.data_size, loc.chunk_size, loc.i),
                        uids |-> loc.uid_groups[loc.i + 1]])
            ELSE Raise("IndexError", loc)
       ELSE Finish
    /\ UNCHANGED <<rng, args, prev, fn_vars>>

\* the planner is called again with the same arguments, in the same process
Restart ==
    /\ pc \in {"done", "raised"}
    /\ ~prev.done
    /\ prev' = [done |-> TRUE, yielded |-> yielded, err |-> err]
    /\ pc' = "start"
    /\ loc' = <<>>
    /\ yielded' = <<>>
    /\ err' = "none"
    /\ UNCHANGED <<rng, args, fn_vars>>

Next ==
    \/ compute_chunk_distribution_mut_exclusive_numpy_reuse_uids
    \/ compute_chunk_distribution_mut_exclusive_numpy_reuse_uids_yield
    \/ ExtendGroups
    \/ EndExtend
    \/ next_reuse_uids
    \/ next_reuse_uids_yield
    \/ compute_chunk_distribution_mut_exclusive_file
    \/ next_exclusive_file
    \/ pre_process_chunk_distribution_file
    \/ next_pre_process_file
    \/ yield_chunk_distribution_file
    \/ next_yield_file
    \/ compute_chunk_distribution
    \/ next_combinatorial
    \/ Restart

Spec == Init /\ [][Next]_vars

----------------------------------------------------------------------------
(* SpecAsync: the two async planners alone.  The set-up of a call is one    *)
(* step.  After it, a coroutine that can take its next step takes it, and   *)
(* its consumer (`async for`) asks for the next item until the generator    *)
(* ends: weak fairness of the loop and yield steps.  Whether the planner is *)
(* called, and called again, is left open.                                  *)

Async == {"reuse_uids", "reuse_uids_yield"}

InitAsync ==
    /\ Init
    /\ args.planner \in Async

\* the steps of a call that is under way
AsyncStep ==
    \/ ExtendGroups
    \/ EndExtend
    \/ next_reuse_uids
    \/ next_reuse_uids_yield

NextAsync ==
    \/ compute_chunk_distribution_mut_exclusive_numpy_reuse_uids
    \/ compute_chunk_distribution_mut_exclusive_numpy_reuse_uids_yield
    \/ AsyncStep
    \/ Restart

SpecAsync == InitAsync /\ [][NextAsync]_vars /\ WF_vars(AsyncStep)

----------------------------------------------------------------------------
(* SpecConc: two concurrent calls on the process-wide generator.  A call    *)
(* of get_pseudorandom_uids runs pyrandom.seed(block_seed) and then         *)
(* pyrandom.sample(uids, k); compute_chunk_distribution runs                *)
(* pyrandom.seed(block_seed) and then pyrandom.shuffle(uid_combinations).   *)
(* Each statement is one step; the steps of the two calls interleave.       *)

Threads == 1..2

\* k is the sample size of get_pseudorandom_uids; R the size of the combinations that
\* compute_chunk_distribution shuffles, the uids being the pool it drew
ThreadArgs ==
    {a \in [fn : {"get_pseudorandom_uids", "compute_chunk_distribution"},
            block_seed : 0..MaxSeed, uids : Muids, k : 0..MaxK, R : 1..MaxR] :
        IF a.fn = "get_pseudorandom_uids"
        THEN a.R = 1
        ELSE a.k = Len(a.uids) /\ a.R <= Len(a.uids)}

Started(a) == [args |-> a, pc |-> "seed", out |-> <<>>]

InitConc ==
    /\ PlannerOff
    /\ cached = NoCache
    /\ chain = NoChain
    /\ call = NoCall
    /\ ret = <<>>
    /\ \E a, b \in ThreadArgs :
        /\ a.block_seed # b.block_seed
        /\ threads = <<Started(a), Started(b)>>

conc_idle_vars == <<args, pc, loc, yielded, err, prev, call, ret, cached, chain>>

\* pyrandom.seed(block_seed)
pyrandom_seed(t) ==
    /\ threads[t].pc = "seed"
    /\ rng' = seed(threads[t].args.block_seed)
    /\ threads' = [threads EXCEPT ![t].pc = "draw"]
    /\ UNCHANGED conc_idle_vars

\* k = min(k, len(uids)); return pyrandom.sample(uids, k=k)
pyrandom_sample(t) ==
    /\ threads[t].pc = "draw"
    /\ threads[t].args.fn = "get_pseudorandom_uids"
    /\ LET a == threads[t].args
           drawn == sample(rng, a.uids, Min(a.k, Len(a.uids)))
       IN  /\ rng' = drawn.rng
           /\ threads' = [threads EXCEPT ![t].pc = "done", ![t].out = drawn.out]
    /\ UNCHANGED conc_idle_vars

\* pyrandom.shuffle(uid_combinations)
pyrandom_shuffle(t) ==
    /\ threads[t].pc = "draw"
    /\ threads[t].args.fn = "compute_chunk_distribution"
    /\ LET a == threads[t].args
           shuffled == shuffle(rng, generate_efficient_combinations(a.uids, a.R).out)
       IN  /\ rng' = shuffled.rng
           /\ threads' = [threads EXCEPT ![t].pc = "done", ![t].out = shuffled.out]
    /\ UNCHANGED conc_idle_vars

NextConc ==
    \E t \in Threads :
        \/ pyrandom_seed(t)
        \/ pyrandom_sample(t)
        \/ pyrandom_shuffle(t)

SpecConc == InitConc /\ [][NextConc]_vars

----------------------------------------------------------------------------
(* SpecTtl: a function wrapped by ttl_cache(ttl).  The closure holds        *)
(* last_time and the lru cache; time.time() is the clock `now`.  The value  *)
(* the underlying function computes at time t is identified with t (for     *)
(* current_block_hash: the hash of the block current at t).  The cache      *)
(* holds fewer keys than its maxsize, so nothing is evicted.                *)

\* the arguments the wrapped function is called with
Subtensors == {"subtensor_a", "subtensor_b"}

Ttls == (1..MaxTtl) \cup {BLOCK_HASH_TTL}

Missing == 0 - 1

EmptyCache == [key \in Subtensors |-> Missing]

NoLast == [called |-> FALSE]

\* the underlying function, called at time t
func(t) == t

\* a wrapper that restarts the ttl at every call
wrapped_func_sliding(c, key) ==
    LET current_time == c.now
        expired == current_time - c.last_time > c.ttl
        cache == IF expired THEN EmptyCache ELSE c.cache
        hit == cache[key] # Missing
        value == IF hit THEN cache[key] ELSE func(current_time)
    IN  [c EXCEPT !.last_time = current_time,
                  !.cache = [cache EXCEPT ![key] = value],
                  !.last = [called |-> TRUE, key |-> key, at |-> current_time,
                            value |-> value, expired |-> expired, hit |-> hit]]

\* wrapped_func(*args): clears the cache when more than ttl has passed since
\* last_time, then returns cache(*args)
wrapped_func(c, key) ==
    LET current_time == c.now
        expired == current_time - c.last_time > c.ttl
        cache == IF expired THEN EmptyCache ELSE c.cache
        last_time == IF expired THEN current_time ELSE c.last_time
        hit == cache[key] # Missing
        value == IF hit THEN cache[key] ELSE func(current_time)
    IN  [c EXCEPT !.last_time = last_time,
                  !.cache = [cache EXCEPT ![key] = value],
                  !.last = [called |-> TRUE, key |-> key, at |-> current_time,
                            value |-> value, expired |-> expired, hit |-> hit]]

\* the decorator has just run: last_time = time.time(), nothing cached
InitTtl ==
    /\ PlannerOff
    /\ rng = 0
    /\ chain = NoChain
    /\ call = NoCall
    /\ ret = <<>>
    /\ threads = NoThreads
    /\ \E ttl \in Ttls :
        cached = [ttl |-> ttl, now |-> 0, last_time |-> 0, cache |-> EmptyCache,
                  last |-> NoLast]

ttl_idle_vars == <<rng, args, pc, loc, yielded, err, prev, call, ret, threads, chain>>

\* time passes; the value returned last has been used
Tick ==
    /\ cached.now < MaxTime
    /\ cached' = [cached EXCEPT !.now = @ + 1, !.last = NoLast]
    /\ UNCHANGED ttl_idle_vars

Call_wrapped_func ==
    /\ \E key \in Subtensors : cached' = wrapped_func(cached, key)
    /\ UNCHANGED ttl_idle_vars

NextTtl ==
    \/ Tick
    \/ Call_wrapped_func

SpecTtl == InitTtl /\ [][NextTtl]_vars

----------------------------------------------------------------------------
(* SpecChain: the chain grows block by block under a fixed metagraph, and   *)
(* the validator asks at every block whose turn it is.  chain.epochs holds, *)
(* for every epoch begun, the set of uids selected during it.               *)

\* torch.where(vpermits)[0], then those whose stake exceeds vpermit_tao_limit
get_all_validators(metagraph, vpermit_tao_limit) ==
    LET query(uid) ==
            /\ metagraph.validator_permit[uid + 1]
            /\ metagraph.S[uid + 1] > vpermit_tao_limit
    IN  SelectSeq([i \in 1..metagraph.n |-> i - 1], query)

\* a selection that moves on with every block
get_current_validtor_uid_round_robin_by_block(metagraph, vpermit_tao_limit, current_block) ==
    LET vuids == get_all_validators(metagraph, vpermit_tao_limit)
    IN  IF Len(vuids) = 0 THEN [err |-> "ZeroDivisionError"]
        ELSE [err |-> "none", out |-> vuids[(current_block % Len(vuids)) + 1]]

\* vidx = current_block // 100 % len(vuids); vuids[vidx].item()
get_current_validtor_uid_round_robin(metagraph, vpermit_tao_limit, current_block) ==
    LET vuids == get_all_validators(metagraph, vpermit_tao_limit)
    IN  IF Len(vuids) = 0 THEN [err |-> "ZeroDivisionError"]
        ELSE [err |-> "none",
              out |-> vuids[((current_block \div EPOCH_BLOCKS) % Len(vuids)) + 1]]

\* the metagraphs of the chain: the stakes are nothing or MaxStake
ChainMetagraphs ==
    {m \in Metagraphs : \A i \in 1..m.n : m.axons[i] /\ m.S[i] \in {0, MaxStake}}

InitChain ==
    /\ PlannerOff
    /\ rng = 0
    /\ cached = NoCache
    /\ call = NoCall
    /\ ret = <<>>
    /\ threads = NoThreads
    /\ \E metagraph \in ChainMetagraphs, vpermit_tao_limit \in 0..MaxStake :
        chain = [metagraph |-> metagraph, vpermit_tao_limit |-> vpermit_tao_limit,
                 block |-> 0, called |-> FALSE, err |-> "none", epochs |-> <<{}>>]

chain_idle_vars == <<rng, args, pc, loc, yielded, err, prev, call, ret, threads, cached>>

\* subtensor.get_current_block() has moved on by one block
NewBlock ==
    /\ chain.called
    /\ chain.err = "none"
    /\ chain.block + 1 < MaxEpochs * EPOCH_BLOCKS
    /\ chain' = [chain EXCEPT !.block = @ + 1, !.called = FALSE,
                              !.epochs = IF (chain.block + 1) % EPOCH_BLOCKS = 0
                                         THEN Append(@, {}) ELSE @]
    /\ UNCHANGED chain_idle_vars

Call_get_current_validtor_uid_round_robin ==
    /\ ~chain.called
    /\ chain.err = "none"
    /\ LET r == get_current_validtor_uid_round_robin(chain.metagraph,
                    chain.vpermit_tao_limit, chain.block)
       IN  chain' = [chain EXCEPT !.called = TRUE, !.err = r.err,
                         !.epochs[Len(chain.epochs)] =
                             IF r.err = "none" THEN @ \cup {r.out} ELSE @]
    /\ UNCHANGED chain_idle_vars

NextChain ==
    \/ NewBlock
    \/ Call_get_current_validtor_uid_round_robin

SpecChain == InitChain /\ [][NextChain]_vars

----------------------------------------------------------------------------
(* SpecUids: get_random_uids and get_available_query_miners applied to      *)
(* bounded metagraphs.  Availability depends on a uid's axon and on whether *)
(* a permitted stake exceeds vpermit_tao_limit, so every stake is MaxStake  *)
(* and the limit varies.                                                    *)

UidMetagraphs == {m \in Metagraphs : \A i \in 1..m.n : m.S[i] = MaxStake}

\* seed: None, or an int
Seeds == {<<>>} \cup {<<s>> : s \in 0..MaxSeed}

\* get_random_uids(self, k, exclude, seed): the error raised, or the lists that
\* random.sample may return.  `random` is Crypto.Random.random: its sample draws
\* distinct positions that no seed determines, and it has no attribute seed.
get_random_uids_of(metagraph, vpermit_tao_limit, k, exclude, rseed) ==
    LET all == [i \in 1..metagraph.n |-> i - 1]
        uid_is_available(uid) == check_uid_availability(metagraph, uid, vpermit_tao_limit)
        uid_is_not_excluded(uid) == exclude = <<>> \/ uid \notin exclude[1]
        is_candidate(uid) == uid_is_available(uid) /\ uid_is_not_excluded(uid)
        is_avail(uid) == uid_is_available(uid) /\ ~uid_is_not_excluded(uid)
        candidate_uids == SelectSeq(all, is_candidate)
        avail_uids == SelectSeq(all, is_avail)
        not_in_exclude(uid) == uid \notin exclude[1]
        filtered_avail_uids == SelectSeq(avail_uids, not_in_exclude)
        additional_uids_needed == k - Len(candidate_uids)
        extended ==
            IF Len(candidate_uids) < k
            THEN {candidate_uids \o additional_uids :
                    additional_uids \in Arrangements(Range(filtered_avail_uids),
                        Min(additional_uids_needed, Len(filtered_avail_uids)))}
            ELSE {candidate_uids}
    IN  IF rseed # <<>> /\ rseed[1] # 0
        THEN [err |-> "AttributeError", out |-> {}]
        ELSE [err |-> "none",
              out |-> UNION {Arrangements(Range(c), Min(k, Len(c))) : c \in extended}]

\* get_available_query_miners(self, k, exclude): at_capacity holds the uids whose
\* hotkey is at capacity
get_available_query_miners_of(g, metagraph, vpermit_tao_limit, k, exclude, block_seed, at_capacity) ==
    LET muids == get_available_uids(metagraph, vpermit_tao_limit, exclude)
        nonfull(uid) == uid \notin at_capacity
        muids_nonfull == SelectSeq(muids, nonfull)
    IN  get_pseudorandom_uids(g, block_seed, muids, k)

InitUids ==
    /\ InitFn
    /\ rng = 0

Call_get_random_uids ==
    /\ call = NoCall
    /\ \E metagraph \in UidMetagraphs, vpermit_tao_limit \in 0..MaxStake, k \in 0..MaxK,
          exclude \in Excludes, rseed \in Seeds :
        LET r == get_random_uids_of(metagraph, vpermit_tao_limit, k, exclude, rseed)
        IN  /\ call' = [fn |-> "get_random_uids", metagraph |-> metagraph,
                        vpermit_tao_limit |-> vpermit_tao_limit, k |-> k,
                        exclude |-> exclude, seed |-> rseed]
            /\ IF r.err # "none"
               THEN ret' = [err |-> r.err]
               ELSE \E uids \in r.out : ret' = [err |-> "none", out |-> uids]
    /\ UNCHANGED planner_vars

Call_get_available_query_miners ==
    /\ call = NoCall
    /\ \E metagraph \in UidMetagraphs, vpermit_tao_limit \in 0..MaxStake, k \in 0..MaxK,
          exclude \in Excludes, block_seed \in 0..MaxSeed, at_capacity \in SUBSET Uids :
        LET r == get_available_query_miners_of(rng, metagraph, vpermit_tao_limit, k,
                                               exclude, block_seed, at_capacity)
        IN  /\ call' = [fn |-> "get_available_query_miners", metagraph |-> metagraph,
                        vpermit_tao_limit |-> vpermit_tao_limit, k |-> k,
                        exclude |-> exclude, block_seed |-> block_seed,
                        at_capacity |-> at_capacity]
            /\ ret' = r.out
            /\ rng' = r.rng
    /\ UNCHANGED idle_vars

NextUids ==
    \/ Return
    \/ Call_get_random_uids
    \/ Call_get_available_query_miners

SpecUids == InitUids /\ [][NextUids]_vars

----------------------------------------------------------------------------
(* SpecComb: the combinatorial mode.  Either compute_chunk_distribution     *)
(* plans a piece of data, or a caller assigns combinations to hashes.       *)

InitComb ==
    \/ Init /\ args.planner = "combinatorial"
    \/ InitFn

\* the assignments a caller makes while no planner runs
CombCalls ==
    /\ pc = "off"
    /\ \/ Call_assign_combinations_to_hashes_by_block_hash
       \/ Call_assign_combinations_to_hashes
       \/ Call_assign_combinations_to_hashes_by_block_hash_again
       \/ Return

NextComb ==
    \/ compute_chunk_distribution
    \/ next_combinatorial
    \/ Restart
    \/ CombCalls

SpecComb == InitComb /\ [][NextComb]_vars

----------------------------------------------------------------------------
(* Claims on the pure functions (SpecFn) *)

IsCall(fn) == call.fn = fn

\* C2: calculate_chunk_indices(data_size, chunk_size) returns exactly
\* ceil(data_size / chunk_size) ranges (the least n with n * chunk_size >= data_size),
\* range i being (i*chunk_size, min((i+1)*chunk_size, data_size)); the last range
\* ends at data_size, so a short final chunk is kept and nothing is padded.
C2_ChunkIndicesExact ==
    IsCall("calculate_chunk_indices") =>
        LET n == Len(ret)
        IN  /\ n * call.chunk_size >= call.data_size
            /\ (n - 1) * call.chunk_size < call.data_size
            /\ \A i \in 1..n :
                  ret[i] = <<(i - 1) * call.chunk_size,
                             Min(i * call.chunk_size, call.data_size)>>
            /\ (n > 0 => ret[n][2] = call.data_size)

\* 10 units in chunks of 3: (0,3) (3,6) (6,9) (9,10)
C2_Witness ==
    /\ IsCall("calculate_chunk_indices")
    /\ call.data_size = 10 /\ call.chunk_size = 3
    /\ ret = <<<<0, 3>>, <<3, 6>>, <<6, 9>>, <<9, 10>>>>

GroupsExact(groups, R) ==
    \A g \in 1..Len(groups) : Len(groups[g]) = R /\ Distinct(groups[g])

C9_BoundsAnyLimits ==
    IsCall("optimal_chunk_size") =>
        IF call.data_size < call.min_chunk_size
        THEN ret = call.data_size
        ELSE call.min_chunk_size <= ret /\ ret <= call.max_chunk_size

\* C9 amended: the same, for min_chunk_size <= max_chunk_size.
C9_BoundsOrderedLimits ==
    (IsCall("optimal_chunk_size") /\ call.min_chunk_size <= call.max_chunk_size) =>
        IF call.data_size < call.min_chunk_size
        THEN ret = call.data_size
        ELSE call.min_chunk_size <= ret /\ ret <= call.max_chunk_size

\* a result strictly inside the bounds, from an ideal size that is not a whole number
C9_Witness ==
    /\ IsCall("optimal_chunk_size")
    /\ call.min_chunk_size < ret /\ ret < call.max_chunk_size
    /\ call.num_available_uids \div call.R > 1
    /\ call.data_size % (call.num_available_uids \div call.R) # 0

\* the reference computation of the chunk size, in integer arithmetic
ReferenceChunkSize(data_size, num_available_uids, R, min_chunk_size, max_chunk_size) ==
    LET maxGroups == num_available_uids \div R
        ideal == IF maxGroups > 0 THEN data_size \div maxGroups ELSE max_chunk_size
        clamped == IF ideal < min_chunk_size THEN min_chunk_size
                   ELSE IF ideal > max_chunk_size THEN max_chunk_size
                   ELSE ideal
    IN  IF clamped > data_size THEN data_size ELSE clamped

C14_AssignRaisesUnchanged ==
    (/\ IsCall("assign_combinations_to_hashes")
            \/ IsCall("assign_combinations_to_hashes_by_block_hash")
     /\ Len(call.hashes) > Len(call.combinations))
        => /\ ret.err = "ValueError"
           /\ ret.combinations = call.combinations
           /\ rng = call.rng

\* more hashes than combinations, a list a shuffle would reorder and a generator
\* state that seeding would change
C14_Witness ==
    /\ IsCall("assign_combinations_to_hashes_by_block_hash")
    /\ Len(call.hashes) > Len(call.combinations)
    /\ Len(call.combinations) >= 2
    /\ call.rng # seed(call.block_seed)
    /\ ret.err = "ValueError"

\* C15: for every list of distinct uids and every k >= 0, get_pseudorandom_uids
\* returns exactly min(k, len(uids)) elements, all taken from uids and pairwise
\* distinct; k > len(uids) is clamped, not an error.
C15_SelectionDistinctClamped ==
    IsCall("get_pseudorandom_uids") =>
        /\ Len(ret) = Min(call.k, Len(call.uids))
        /\ Range(ret) \subseteq Range(call.uids)
        /\ Distinct(ret)

\* k above the length of a list of two uids or more: the whole list comes back, reordered
C15_Witness ==
    /\ IsCall("get_pseudorandom_uids")
    /\ call.k > Len(call.uids) /\ Len(call.uids) >= 2
    /\ Len(ret) = Len(call.uids) /\ ret # call.uids

\* the binomial coefficient C(n, r)
RECURSIVE Binomial(_, _)
Binomial(n, r) ==
    IF r = 0 THEN 1
    ELSE IF n = 0 THEN 0
    ELSE Binomial(n - 1, r - 1) + Binomial(n - 1, r)

\* C16: for a pool of n distinct uids and 1 <= R <= n, generate_efficient_combinations
\* returns exactly C(n, R) groups, each of R distinct uids of the pool, no two groups
\* with the same set of uids; it raises ValueError when R > n.
C16_AllCombinations ==
    IsCall("generate_efficient_combinations") =>
        IF call.R > Len(call.available_uids)
        THEN ret.err = "ValueError"
        ELSE /\ ret.err = "none"
             /\ Len(ret.out) = Binomial(Len(call.available_uids), call.R)
             /\ \A g \in 1..Len(ret.out) :
                   /\ Len(ret.out[g]) = call.R
                   /\ Distinct(ret.out[g])
                   /\ Range(ret.out[g]) \subseteq Range(call.available_uids)
             /\ \A g, h \in 1..Len(ret.out) :
                   g # h => Range(ret.out[g]) # Range(ret.out[h])

\* the six pairs of a pool of four uids
C16_Witness ==
    /\ IsCall("generate_efficient_combinations")
    /\ Len(call.available_uids) = 4 /\ call.R = 2
    /\ ret.err = "none" /\ Len(ret.out) = 6

RECURSIVE Concat(_)
Concat(chunks) == IF chunks = <<>> THEN <<>> ELSE Head(chunks) \o Concat(Tail(chunks))

\* C17: for every byte string data and chunk_size >= 1, the chunks of
\* chunk_data_generator(data, chunk_size) concatenated in order give back data; every
\* chunk but the last has length chunk_size, the last is non-empty and at most
\* chunk_size long.
C17_ChunksConcatenateToData ==
    IsCall("chunk_data_generator") =>
        /\ Concat(ret) = call.data
        /\ \A i \in 1..(Len(ret) - 1) : Len(ret[i]) = call.chunk_size
        /\ Len(ret) > 0 =>
              Len(ret[Len(ret)]) >= 1 /\ Len(ret[Len(ret)]) <= call.chunk_size

\* five bytes in chunks of two: two full chunks and a last chunk of one byte
C17_Witness ==
    /\ IsCall("chunk_data_generator")
    /\ Len(call.data) = 5 /\ call.chunk_size = 2
    /\ Len(ret) = 3 /\ Len(ret[3]) = 1

\* C18: get_available_uids returns, in strictly ascending order, exactly the uids u of
\* [0, n) whose axon is serving, that are not validator-permit holders with a stake
\* above vpermit_tao_limit, and that are not in exclude; an empty list when none is.
C18_AvailableUidsExact ==
    IsCall("get_available_uids") =>
        LET m == call.metagraph
            eligible == {u \in 0..(m.n - 1) :
                            /\ m.axons[u + 1]
                            /\ ~(m.validator_permit[u + 1]
                                    /\ m.S[u + 1] > call.vpermit_tao_limit)
                            /\ (call.exclude # <<>> => u \notin call.exclude[1])}
        IN  /\ Range(ret) = eligible
            /\ \A i, j \in 1..Len(ret) : i < j => ret[i] < ret[j]

\* three serving uids: 0 holds a permit with a stake at the limit, 1 is excluded
C18_Witness ==
    /\ IsCall("get_available_uids")
    /\ call.metagraph.n = 3
    /\ call.metagraph.axons = <<TRUE, TRUE, TRUE>>
    /\ call.metagraph.validator_permit[1]
    /\ call.metagraph.S[1] = call.vpermit_tao_limit
    /\ call.exclude = <<{1}>>
    /\ ret = <<0, 2>>

\* C21 as stated: with the block seed unchanged, calling
\* assign_combinations_to_hashes_by_block_hash twice with the same hashes and the
\* same combinations list returns the same hash-to-combination mapping both times,
\* whether the second call is handed the list of the first call or an equal one.
C21_AssignByBlockHashRepeats ==
    IsCall("assign_combinations_to_hashes_by_block_hash_again") =>
        ret.err = call.first.err /\ ret.out = call.first.out

\* C21 amended: the mapping is the same both times when the second call is handed a
\* list with the same elements in the same order as the first call was handed.
C21_AssignByBlockHashRepeatsOnEqualList ==
    (IsCall("assign_combinations_to_hashes_by_block_hash_again") /\ ~call.same_list) =>
        ret.err = call.first.err /\ ret.out = call.first.out

\* a second call on an equal list, from a generator state that seeding changes, with
\* two hashes or more and a shuffle that reorders the list
C21_Witness ==
    /\ IsCall("assign_combinations_to_hashes_by_block_hash_again")
    /\ ~call.same_list
    /\ Len(call.hashes) >= 2
    /\ call.rng # seed(call.block_seed)
    /\ ret.combinations # call.combinations
    /\ ret.out = call.first.out

\* C25: for every data_size >= 0 and num_chunks >= 1,
\* calculate_chunk_indices_from_num_chunks returns num_chunks ranges with
\* start <= end, the first starting at 0, each starting where the previous one
\* ended and the last ending at data_size, also when data_size < num_chunks.
C25_NumChunksRangesContiguous ==
    IsCall("calculate_chunk_indices_from_num_chunks") =>
        /\ Len(ret) = call.num_chunks
        /\ \A i \in 1..Len(ret) : ret[i][1] <= ret[i][2]
        /\ ret[1][1] = 0
        /\ \A i \in 1..(Len(ret) - 1) : ret[i + 1][1] = ret[i][2]
        /\ ret[Len(ret)][2] = call.data_size

----------------------------------------------------------------------------
(* Claims on the planners (Spec) *)

Finished == pc \in {"done", "raised"}

IsPlanner(P) == args.planner \in P

\* the ranges (start_idx, end_idx) of the items yielded so far
YieldedRanges ==
    [i \in 1..Len(yielded) |-> <<yielded[i].start_idx, yielded[i].end_idx>>]

Covers(ranges, data_size) ==
    /\ Len(ranges) = 0 => data_size = 0
    /\ Len(ranges) > 0 => ranges[1][1] = 0 /\ ranges[Len(ranges)][2] = data_size
    /\ \A i \in 1..(Len(ranges) - 1) : ranges[i + 1][1] = ranges[i][2]

\* C1: for data_size >= 0, chunk_size >= 1 and R <= len(pool), the ranges yielded by
\* compute_chunk_distribution_mut_exclusive_numpy_reuse_uids, in chunk_index order,
\* cover [0, data_size) exactly once: the first starts at 0, each starts where the
\* previous one ended, the last ends at data_size; also when data_size is not a
\* multiple of chunk_size and there are more chunks than groups.
C1_RangesCoverData ==
    (/\ pc = "done"
     /\ IsPlanner({"reuse_uids"})
     /\ loc.chunk_size >= 1
     /\ args.R <= Len(loc.pool))
        => Covers(YieldedRanges, args.data_size)

NumChunks == CeilDiv(args.data_size, loc.chunk_size)

\* C3: when the data needs more chunks than there are groups, every chunk receives a
\* group and chunk i is assigned groups[i mod len(groups)], groups being the initial
\* partition in its order; for compute_chunk_distribution_mut_exclusive_numpy_reuse_uids
\* and for pre_process_chunk_distribution_file.
C3_EveryChunkCyclicGroup ==
    (/\ pc = "done"
     /\ IsPlanner({"reuse_uids", "pre_process_file"})
     /\ NumChunks > Len(loc.initial_uid_groups))
        => /\ Len(yielded) = NumChunks
           /\ \A i \in 1..Len(yielded) :
                 yielded[i].uids =
                     loc.initial_uid_groups[((i - 1) % Len(loc.initial_uid_groups)) + 1]

\* C4: for a fixed block seed, list of available uids, R, data_size and chunk_size,
\* two runs of the exclusive planner (get_pseudorandom_uids, adjust_uids_to_multiple,
\* partition_uids, compute_chunk_distribution_mut_exclusive_numpy_reuse_uids) yield
\* the same sequence of (start_idx, end_idx, uids, chunk_index), whatever the state
\* of the generator at the start of each run.
C4_ExclusivePlanRepeats ==
    (prev.done /\ Finished /\ IsPlanner({"reuse_uids"}))
        => yielded = prev.yielded /\ err = prev.err

\* a second run that yielded two chunks or more to a pool selected among more uids
C4_Witness ==
    /\ prev.done /\ pc = "done" /\ IsPlanner({"reuse_uids"})
    /\ Len(yielded) >= 2
    /\ Len(loc.pool) >= 2 /\ Len(args.muids) > Len(loc.pool)
    /\ yielded[1].uids # yielded[2].uids

\* C5: for a fixed block seed, metagraph, data, R and k, two runs of
\* compute_chunk_distribution yield the same sequence of uid combinations.
C5_CombinatorialPlanRepeats ==
    (prev.done /\ Finished /\ IsPlanner({"combinatorial"}))
        => yielded = prev.yielded /\ err = prev.err

Disjoint(g, h) == Range(g) \cap Range(h) = {}

\* C7: no uid is in two different groups produced by adjust_uids_to_multiple followed
\* by partition_uids; no two chunks yielded by
\* compute_chunk_distribution_mut_exclusive_file are assigned a common uid.
C7_GroupsMutuallyExclusive ==
    /\ (pc # "start" /\ IsPlanner(Exclusive \ {"yield_file"})) =>
          \A g, h \in 1..Len(loc.initial_uid_groups) :
              g # h => Disjoint(loc.initial_uid_groups[g], loc.initial_uid_groups[h])
    /\ IsPlanner({"exclusive_file"}) =>
          \A i, j \in 1..Len(yielded) :
              i # j => Disjoint(yielded[i].uids, yielded[j].uids)

\* the file planner has yielded two chunks, each to a group of its own
C7_Witness ==
    /\ pc = "done" /\ IsPlanner({"exclusive_file"})
    /\ Len(yielded) >= 2

\* R <= len(pool) and len(pool) is not a multiple of R
RemainderCase ==
    /\ pc # "start"
    /\ IsPlanner(Exclusive)
    /\ args.R <= Len(loc.pool)
    /\ Len(loc.pool) % args.R # 0

\* the planner works on the first len(pool) - len(pool) mod R uids of the pool and
\* raises no ValueError (the error of the checks on R and on the pool's length)
PlansOverPrefix ==
    LET prefix == SubSeq(loc.pool, 1, Len(loc.pool) - (Len(loc.pool) % args.R))
    IN  /\ err # "ValueError"
        /\ loc.available_uids = prefix
        \* the groups, unless the planner stopped on a zero chunk size before them
        /\ err # "ZeroDivisionError" =>
              /\ Len(loc.initial_uid_groups) = Len(prefix) \div args.R
              /\ \A g \in 1..Len(loc.initial_uid_groups) :
                    loc.initial_uid_groups[g] =
                        SubSeq(prefix, (g - 1) * args.R + 1, g * args.R)
        /\ \A i \in 1..Len(yielded) : Range(yielded[i].uids) \subseteq Range(prefix)

C11_EmptyDataPlansNothing ==
    (/\ Finished
     /\ args.data_size = 0 /\ args.chunk_size = 0
     /\ args.R <= Len(loc.pool))
        => pc = "done" /\ yielded = <<>>

\* C12: whenever R is greater than the number of available uids, every planner raises
\* ValueError and yields no chunk assignment at all.
C12_RedundancyAboveUidsRaises ==
    (Finished /\ args.R > Len(loc.pool))
        => err = "ValueError" /\ yielded = <<>>

\* C13: no planner fails after it has yielded a chunk assignment: every error is
\* raised before the first yield, also in compute_chunk_distribution when the data
\* splits into more chunks than there are R-combinations of the pool.
C13_NoErrorAfterYield ==
    err # "none" => yielded = <<>>

\* the byte ranges of the chunks yielded so far by the file planner
YieldedChunks == [i \in 1..Len(yielded) |-> yielded[i].chunk]

\* C22: for every file and every pool with R <= len(pool), the chunks yielded by
\* compute_chunk_distribution_mut_exclusive_file, in order, make up the whole file,
\* also when the file needs more chunks than there are groups or its size is not a
\* multiple of the chunk size.
C22_FileChunksCoverFile ==
    (/\ pc = "done"
     /\ IsPlanner({"exclusive_file"})
     /\ args.R <= Len(loc.pool))
        => Covers(YieldedChunks, args.data_size)

\* C23: pre_process_chunk_distribution_file returns exactly
\* ceil(file_size / chunk_size) entries, entry i with start_pos = i*chunk_size, and
\* start_pos + chunk_size <= file_size for each entry.
C23_MetadataInsideFile ==
    (pc = "done" /\ IsPlanner({"pre_process_file"}))
        => /\ Len(yielded) = NumChunks
           /\ \A i \in 1..Len(yielded) :
                 /\ yielded[i].start_pos = (i - 1) * loc.chunk_size
                 /\ yielded[i].start_pos + yielded[i].chunk_size <= args.data_size

\* C24: for a non-empty file and a pool with R <= len(pool) and len(pool) a multiple
\* of R, yield_chunk_distribution_file yields without raising one item per chunk,
\* item i pairing uid_groups[i mod len(uid_groups)] with the chunk that load_chunk
\* reads at start_pos = i*chunk_size.
C24_YieldFileYieldsEveryChunk ==
    (/\ Finished
     /\ IsPlanner({"yield_file"})
     /\ args.data_size > 0
     /\ args.R <= Len(loc.pool)
     /\ Len(loc.pool) % args.R = 0)
        => /\ pc = "done"
           /\ Len(yielded) = NumChunks
           /\ \A i \in 1..Len(yielded) :
                 /\ yielded[i][1] = loc.uid_groups[((i - 1) % Len(loc.uid_groups)) + 1]
                 /\ yielded[i][2].chunk_data =
                        file_read(args.data_size, (i - 1) * loc.chunk_size, loc.chunk_size)

----------------------------------------------------------------------------
(* Claims on concurrent calls (SpecConc) *)

\* what the call with arguments a produces when it runs alone
RunsAlone(a) ==
    IF a.fn = "get_pseudorandom_uids"
    THEN get_pseudorandom_uids(0, a.block_seed, a.uids, a.k).out
    ELSE seeded_shuffle(0, a.block_seed, generate_efficient_combinations(a.uids, a.R).out).out

\* C19: two calls that run concurrently with different seeds do not interfere: under
\* every interleaving of their steps (seeding, sampling, shuffling) each call's
\* selected pool or group order equals what the call produces when it runs alone
\* with its own seed.
C19_ConcurrentCallsDoNotInterfere ==
    \A t \in DOMAIN threads :
        threads[t].pc = "done" => threads[t].out = RunsAlone(threads[t].args)

----------------------------------------------------------------------------
(* Claims on the async planners (SpecAsync) *)

\* C20: planning always terminates: the group-extension loop of the async planners
\* finishes, the planner that yields then stops (returns or raises), and with
\* chunk_size >= 1 it has yielded at most ceil(data_size / chunk_size) assignments.
C20_PlanningTerminates ==
    /\ (pc = "extend") ~> (pc = "yield")
    /\ (pc = "yield") ~> Finished
    /\ []((pc \in {"extend", "yield", "done", "raised"} /\ loc.chunk_size >= 1)
            => Len(yielded) <= CeilDiv(args.data_size, loc.chunk_size))

\* a run that had to reuse groups: more groups than the initial partition, and as
\* many assignments as chunks
C20_Witness ==
    /\ pc = "done" /\ IsPlanner({"reuse_uids"})
    /\ Len(loc.uid_groups) > Len(loc.initial_uid_groups)
    /\ Len(yielded) >= 2
    /\ Len(yielded) = NumChunks

----------------------------------------------------------------------------
(* Claims on ttl_cache (SpecTtl) *)

----------------------------------------------------------------------------
(* Claims on the round-robin selection (SpecChain) *)

\* the epoch has had its selection recorded
Selected(e) == e < Len(chain.epochs) \/ chain.called

\* C27: with n >= 1 validators the selection is the validator at index
\* (current_block div 100) mod n: it is constant during each 100-block epoch, moves
\* to the next validator (wrapping around) at each epoch boundary, and over any n
\* consecutive epochs every validator is selected exactly once.
C27_RoundRobin ==
    LET vuids == get_all_validators(chain.metagraph, chain.vpermit_tao_limit)
        n == Len(vuids)
        epochs == chain.epochs
    IN  n >= 1 =>
            /\ chain.err = "none"
            /\ chain.called =>
                  epochs[Len(epochs)] = {vuids[((chain.block \div 100) % n) + 1]}
            /\ \A e \in 1..Len(epochs) : Selected(e) => Cardinality(epochs[e]) = 1
            /\ \A e \in 1..(Len(epochs) - 1) : Selected(e + 1) =>
                  \E i \in 1..n : /\ epochs[e] = {vuids[i]}
                                  /\ epochs[e + 1] = {vuids[(i % n) + 1]}
            /\ \A e \in 1..Len(epochs) : (e + n - 1 <= Len(epochs) /\ Selected(e + n - 1)) =>
                  /\ UNION {epochs[f] : f \in e..(e + n - 1)} = Range(vuids)
                  /\ \A f, g \in e..(e + n - 1) : f # g => epochs[f] # epochs[g]

\* three validators, the fourth epoch under way: the turn is back at the first
C27_Witness ==
    /\ Len(get_all_validators(chain.metagraph, chain.vpermit_tao_limit)) = 3
    /\ Len(chain.epochs) = 4
    /\ chain.called
    /\ chain.block % EPOCH_BLOCKS = EPOCH_BLOCKS - 1
    /\ chain.epochs[4] = chain.epochs[1]
    /\ chain.epochs[2] # chain.epochs[1]

----------------------------------------------------------------------------
(* Claims on the uid selections (SpecUids) *)

\* the available uids not in exclude
Candidates(c) ==
    {uid \in 0..(c.metagraph.n - 1) :
        /\ check_uid_availability(c.metagraph, uid, c.vpermit_tao_limit)
        /\ (c.exclude = <<>> \/ uid \notin c.exclude[1])}

\* C28: for every metagraph, k >= 0 and exclude list, get_random_uids returns
\* exactly min(k, c) pairwise distinct uids, c being the number of available uids
\* not in exclude; every returned uid is available and none is in exclude.
C28_RandomUidsExact ==
    call.fn = "get_random_uids" =>
        /\ ret.err = "none"
        /\ Len(ret.out) = Min(call.k, Cardinality(Candidates(call)))
        /\ Distinct(ret.out)
        /\ Range(ret.out) \subseteq Candidates(call)

\* C29: get_available_query_miners never returns a uid whose hotkey is at capacity.
C29_NoMinerAtCapacity ==
    call.fn = "get_available_query_miners" =>
        Range(ret) \cap call.at_capacity = {}

----------------------------------------------------------------------------
(* Claims on the combinatorial mode (SpecComb) *)

\* the number of times x occurs in the list
Count(list, x) == Cardinality({i \in 1..Len(list) : list[i] = x})

IsAssignCall ==
    call.fn \in {"assign_combinations_to_hashes_by_block_hash",
                 "assign_combinations_to_hashes",
                 "assign_combinations_to_hashes_by_block_hash_again"}

\* C30: no combination serves two chunks.  When the combinations are pairwise
\* distinct and there are at most as many hashes as combinations, the assignment
\* maps distinct hashes to distinct combinations of the input list, and the shuffle
\* leaves the list with the same elements in the same multiplicities; and
\* compute_chunk_distribution gives chunks with different indices different
\* combinations.
C30_NoCombinationServesTwoChunks ==
    /\ (/\ IsAssignCall
        /\ Distinct(call.combinations)
        /\ Distinct(call.hashes)
        /\ Len(call.hashes) <= Len(call.combinations)) =>
            /\ ret.err = "none"
            /\ DOMAIN ret.out = Range(call.hashes)
            /\ \A h1, h2 \in Range(call.hashes) : h1 # h2 => ret.out[h1] # ret.out[h2]
            /\ \A h \in Range(call.hashes) : ret.out[h] \in Range(call.combinations)
            /\ Len(ret.combinations) = Len(call.combinations)
            /\ \A c \in Range(call.combinations) \cup Range(ret.combinations) :
                  Count(ret.combinations, c) = Count(call.combinations, c)
    /\ (pc # "off" /\ args.planner = "combinatorial") =>
            \A i, j \in 1..Len(yielded) : i # j =>
                /\ yielded[i].chunk # yielded[j].chunk
                /\ yielded[i].uids # yielded[j].uids

\* two hashes assigned among three combinations of two uids that the shuffle has
\* reordered
C30_Witness ==
    /\ call.fn = "assign_combinations_to_hashes_by_block_hash"
    /\ Len(call.hashes) = 2
    /\ Len(call.combinations) = 3
    /\ Len(call.combinations[1]) = 2
    /\ ret.err = "none"
    /\ ret.combinations # call.combinations
    /\ ret.out[1] # ret.out[2]

\* the planner has given two chunks their combinations
C30_WitnessPlanned ==
    /\ pc # "off" /\ args.planner = "combinatorial"
    /\ Len(yielded) >= 2
    /\ Len(yielded[1].uids) >= 2
    /\ yielded[1].uids # yielded[2].uids

====
